---- MODULE Spec2Model ----
(***************************************************************************)
(* State-machine model of the About page's stateful view components:      *)
(*   - CinematicHistory / HistoryItem (typewriter variant)                *)
(*   - CompanyTimeline / DesktopTimeline (autoplay variant)               *)
(* One action is one browser task: the event handler or timer callback,   *)
(* the React state updates it queues, the re-render and the effects       *)
(* (cleanup + body) that the changed dependencies re-run.                 *)
(***************************************************************************)
EXTENDS Integers, Sequences, FiniteSets, TLC

(* ------------------------------ bounds -------------------------------- *)
\* number of entries of companyHistory that the model keeps
HistoryLen == 3
\* number of characters of every modelled blurb
BlurbLen == 2
\* cap on simultaneously pending 2 s auto-advance timeouts
MaxPending == 2

\* number of entries of timelineData that the model keeps
TimelineLen == 3
\* size of each pool of timer ids
MaxTimers == 2
\* cap on simultaneously pending handleDotClick timeouts
MaxDotTimeouts == 1
\* cards whose trigger line one scroll gesture crosses
MaxEntered == 2
\* cap of the counter of visible onIntersect calls
MaxCalls == 2
\* cards of the timeline whose thumbnails are clicked
CardsLen == 2
\* cap on the clicks of the dialog's Open in New Tab button
MaxWindows == 1
\* milliseconds that pass in one step of the model's clock
TimeStep == 2000
\* entries of mvvgData that the model keeps
MvvLen == 2
\* entries of testimonialData that the model keeps
TestimonialsLen == 2
\* cap on the records of the two global analytics arrays together
MaxRecords == 3

(* --------------------------- program constants ------------------------ *)
\* setInterval(..., 6000) of the autoplay effect
AutoplayDelay == 6000
\* setTimeout(..., 12000) of handleInteraction
InactivityDelay == 12000
\* IntersectionObserver ratio test `intersectionRatio > 0.5`, in percent
RatioThreshold == 50
\* thumbnails taken from a card's gallery
ThumbCount == 3

NoTarget == 0 - 1

Max(a, b) == IF a >= b THEN a ELSE b
Min(a, b) == IF a <= b THEN a ELSE b

(* ------------------------------- data --------------------------------- *)
\* companyHistory[i].year, i = 0 .. 4
HistoryYears == <<2019, 2020, 2021, 2023, 2025>>

HistIdx == 0 .. (HistoryLen - 1)

\* h.year of entry i; entries past the data get the following years
companyHistoryYear(i) ==
    IF i + 1 <= Len(HistoryYears) THEN HistoryYears[i + 1] ELSE 2025 + i

\* entry.blurb as a sequence of characters; character k of entry i is <<i, k>>
Blurb(i) == [k \in 1 .. BlurbLen |-> <<i, k>>]

\* companyHistory.findIndex(h => h.year === year)
findIndex(year) ==
    IF \E i \in HistIdx : companyHistoryYear(i) = year
    THEN CHOOSE i \in HistIdx :
            /\ companyHistoryYear(i) = year
            /\ \A j \in HistIdx : companyHistoryYear(j) = year => i <= j
    ELSE 0 - 1

\* text.slice(0, n)
Slice(text, n) == SubSeq(text, 1, Min(n, Len(text)))

VARIABLES
    reducedMotion,    \* useReducedMotion()
    hMounted,         \* CinematicHistory is mounted
    hActiveIndex,     \* CinematicHistory activeIndex
    hIsPaused,        \* CinematicHistory isPaused
    charIndex,        \* HistoryItem charIndexRef.current, per entry
    displayedText,    \* HistoryItem displayedText, per entry
    isTyping,         \* HistoryItem isTyping, per entry
    typingInterval,   \* HistoryItem: the interval of typingIntervalRef is outstanding
    advanceTimeouts,  \* number of outstanding 2 s auto-advance timeouts
    scrollTarget,     \* entry a smooth scrollIntoView is animating to, or NoTarget
    lateSetState,     \* state setters called after their component unmounted
    tMounted,         \* CompanyTimeline is mounted
    tActiveIndex,     \* CompanyTimeline activeIndex
    isAutoplay,       \* CompanyTimeline isAutoplay
    isMobile,         \* useIsMobile()
    autoplayRef,      \* autoplayRef.current: a timer id, 0 for null
    inactivityRef,    \* inactivityRef.current: a timer id, 0 for null
    intervals,        \* outstanding setInterval timers: id -> ms left, Off if none
    timeouts,         \* outstanding 12 s setTimeout timers: id -> ms left, Off if none
    dotTimeouts,      \* outstanding handleDotClick timeouts, oldest first
    sinceInteraction, \* ms since the last user interaction with the timeline
    userToggledOff,   \* the last click on the Pause/Autoplay button turned autoplay off
    pointerInside,    \* the pointer (or the focus) is inside the timeline section
    tLen,             \* timelineData.length
    autoTicks,        \* autoplay ticks since the last other change of activeIndex
    autoStart,        \* activeIndex when that run of ticks began
    sMounted,         \* scroll-driven CompanyTimeline is mounted
    sLen,             \* timelineData.length seen by the scroll-driven variant
    region,           \* scroll position: "before", "inside" or "after" the tracked region
    activeYear,       \* scroll-driven CompanyTimeline activeYear
    scrollProgress,   \* scrollProgress = progress * 100, in 1/ProgressDen percent
    isIndicatorVisible, \* scroll-driven CompanyTimeline isIndicatorVisible
    pending,          \* ScrollTrigger callbacks of the last gesture not yet delivered
    finalProgress,    \* progress at which the last scroll gesture ended
    resolved,         \* <<progress, yearIndex>> of the last onUpdate
    resolvedPrev,     \* <<progress, yearIndex>> of the onUpdate before it
    activeImage,      \* TimelineCard activeImage of every card
    ioSupported,      \* the environment defines IntersectionObserver
    oPhase,           \* useIntersectionObserver host: "idle", "mounted", "threw", "unmounted"
    oObserving,       \* the hook's observer is observing the element
    oIsIntersecting,  \* useIntersectionObserver isIntersecting
    oEntryRatio,      \* intersectionRatio of the hook's entry, NoEntry for null
    hasTriggered,     \* useIntersectionObserver hasTriggered.current
    oTriggerOnce,     \* the triggerOnce option
    oVisibleCalls,    \* calls of onIntersect with isVisible = true
    aMounted,         \* the About page, with its MVVG cards and slider, is mounted
    isExpanded,       \* MVVGCard isExpanded of every card
    aboutMvvClicks,   \* window.aboutMvvClicks
    testimonialPdfOpened, \* window.testimonialPdfOpened
    now,              \* the value Date.now() returns at the next reading
    keyupClick,       \* card whose button gets the click of a Space keyup, 0 if none
    windowOpened,     \* number of window.open calls
    sliderVariant,    \* the version of TestimonialSlider.tsx the page is built with
    selectedTestimonial, \* TestimonialSlider selectedTestimonial, NoSelection for null
    modalType,        \* TestimonialSlider modalType: "null", "pdf" or "excerpt"
    swiperFailed,     \* TestimonialSlider swiperFailed
    gridCards,        \* ids of the cards rendered by FallbackSlider
    lIsPaused,        \* TestimonialSlider isPaused
    swRunning,        \* swiperRef.current.autoplay.running
    lInactivityRef,   \* TestimonialSlider inactivityRef.current (0 = null)
    lTimeouts,        \* the slider's setTimeout pool: id -> ms left, or Off
    escListening,     \* the window keydown listener handleEsc is registered
    prefersReducedMotion, \* useReducedMotion state of the slider's hook
    mqMatches,        \* matches of the (prefers-reduced-motion: reduce) query
    mqListening       \* the hook's change listener is registered

hvars == <<hMounted, hActiveIndex, hIsPaused, charIndex, displayedText,
           isTyping, typingInterval, advanceTimeouts, scrollTarget>>

tvars == <<tMounted, tActiveIndex, isAutoplay, isMobile, autoplayRef,
           inactivityRef, intervals, timeouts, dotTimeouts, sinceInteraction,
           userToggledOff, pointerInside, tLen, autoTicks, autoStart>>

svars == <<sMounted, sLen, region, activeYear, scrollProgress, isIndicatorVisible, pending,
           finalProgress, resolved, resolvedPrev, activeImage>>

ovars == <<ioSupported, oPhase, oObserving, oIsIntersecting, oEntryRatio,
           hasTriggered, oTriggerOnce, oVisibleCalls>>

\* the About page: MVVG cards and the global analytics arrays
avars == <<aMounted, isExpanded, aboutMvvClicks, testimonialPdfOpened, now,
           keyupClick, windowOpened>>

\* TestimonialSlider with its useReducedMotion instance
lvars == <<sliderVariant, selectedTestimonial, modalType, swiperFailed, gridCards,
           lIsPaused, swRunning, lInactivityRef, lTimeouts, escListening,
           prefersReducedMotion, mqMatches, mqListening>>

pvars == <<avars, lvars>>

vars == <<reducedMotion, hvars, lateSetState, tvars, svars, ovars, pvars>>

(* ====================== CinematicHistory / HistoryItem ================= *)

\* isActive={index <= activeIndex}
IsActive(i, a) == i <= a

\* the last run of the typewriter effect reached setInterval and so
\* returned the cleanup that clears typingIntervalRef
HadCleanup(i) == IsActive(i, hActiveIndex) /\ ~reducedMotion /\ ~hIsPaused

\* typewriter effect of entry i re-run for the new props (a, p, rm):
\* cleanup of the previous run, then the body
\* the typewriter effect without its isPaused branch
EffectInterval_NoPause(i, a, p, rm) ==
    LET afterCleanup == IF HadCleanup(i) THEN FALSE ELSE typingInterval[i]
    IN  IF ~IsActive(i, a) \/ rm THEN afterCleanup
        ELSE TRUE

EffectInterval(i, a, p, rm) ==
    LET afterCleanup == IF HadCleanup(i) THEN FALSE ELSE typingInterval[i]
    IN  IF ~IsActive(i, a) \/ rm THEN afterCleanup
        ELSE IF p THEN FALSE
        ELSE TRUE

EffectTyping(i, a, p, rm) ==
    IF IsActive(i, a) /\ ~rm /\ ~p THEN TRUE ELSE isTyping[i]

EffectText(i, a, p, rm) ==
    IF rm /\ IsActive(i, a) THEN Blurb(i) ELSE displayedText[i]

\* re-render of CinematicHistory with new state (a, p, rm); the effect
\* dependencies [isActive, isPaused, entry.blurb, reducedMotion, onComplete]
\* change exactly when activeIndex, isPaused or reducedMotion changed
HRender(a, p, rm) ==
    IF a = hActiveIndex /\ p = hIsPaused /\ rm = reducedMotion
    THEN UNCHANGED <<typingInterval, isTyping, displayedText>>
    ELSE /\ typingInterval' = [i \in HistIdx |-> EffectInterval(i, a, p, rm)]
         /\ isTyping' = [i \in HistIdx |-> EffectTyping(i, a, p, rm)]
         /\ displayedText' = [i \in HistIdx |-> EffectText(i, a, p, rm)]

\* setActiveIndex(a) followed by the re-render
HSetActiveIndex(a) ==
    /\ hActiveIndex' = a
    /\ HRender(a, hIsPaused, reducedMotion)

\* handleJumpToYear(year)
handleJumpToYear(year) ==
    /\ hMounted
    /\ LET index == findIndex(year)
       IN  IF index # 0 - 1
           THEN /\ HSetActiveIndex(index)
                /\ scrollTarget' = index
           ELSE UNCHANGED <<hActiveIndex, typingInterval, isTyping,
                            displayedText, scrollTarget>>
    /\ UNCHANGED <<reducedMotion, hMounted, hIsPaused, charIndex,
                   advanceTimeouts, lateSetState>>
    /\ UNCHANGED <<tvars, svars, ovars, pvars>>

\* the smooth scroll started by scrollIntoView comes to rest
ScrollSettled ==
    /\ hMounted
    /\ scrollTarget # NoTarget
    /\ scrollTarget' = NoTarget
    /\ UNCHANGED <<reducedMotion, hMounted, hActiveIndex, hIsPaused, charIndex,
                   displayedText, isTyping, typingInterval, advanceTimeouts,
                   lateSetState>>
    /\ UNCHANGED <<tvars, svars, ovars, pvars>>

\* IntersectionObserver callback of entry `index`
ObserverCallback_AtThreshold(index, isIntersecting, ratio) ==
    /\ hMounted
    /\ IF isIntersecting /\ ratio >= RatioThreshold
       THEN HSetActiveIndex(index)
       ELSE UNCHANGED <<hActiveIndex, typingInterval, isTyping, displayedText>>
    /\ UNCHANGED <<reducedMotion, hMounted, hIsPaused, charIndex,
                   advanceTimeouts, scrollTarget, lateSetState>>
    /\ UNCHANGED <<tvars, svars, ovars, pvars>>

ObserverCallback(index, isIntersecting, ratio) ==
    /\ hMounted
    /\ IF isIntersecting /\ ratio > RatioThreshold
       THEN HSetActiveIndex(index)
       ELSE UNCHANGED <<hActiveIndex, typingInterval, isTyping, displayedText>>
    /\ UNCHANGED <<reducedMotion, hMounted, hIsPaused, charIndex,
                   advanceTimeouts, scrollTarget, lateSetState>>
    /\ UNCHANGED <<tvars, svars, ovars, pvars>>

\* togglePause
togglePause ==
    /\ hMounted
    /\ hIsPaused' = ~hIsPaused
    /\ HRender(hActiveIndex, ~hIsPaused, reducedMotion)
    /\ UNCHANGED <<reducedMotion, hMounted, hActiveIndex, charIndex,
                   advanceTimeouts, scrollTarget, lateSetState>>
    /\ UNCHANGED <<tvars, svars, ovars, pvars>>

\* handleComplete as captured by the last render: schedules the 2 s timeout
handleCompleteSchedules == hActiveIndex < HistoryLen - 1 /\ ~hIsPaused

\* one firing of the 30 ms typing interval of entry i
TypingTick(i) ==
    /\ hMounted
    /\ typingInterval[i]
    /\ IF charIndex[i] < Len(Blurb(i))
       THEN /\ displayedText' =
                 [displayedText EXCEPT ![i] = Slice(Blurb(i), charIndex[i] + 1)]
            /\ charIndex' = [charIndex EXCEPT ![i] = charIndex[i] + 1]
            /\ UNCHANGED <<typingInterval, isTyping, advanceTimeouts>>
       ELSE /\ typingInterval' = [typingInterval EXCEPT ![i] = FALSE]
            /\ isTyping' = [isTyping EXCEPT ![i] = FALSE]
            /\ IF handleCompleteSchedules
               THEN /\ advanceTimeouts < MaxPending
                    /\ advanceTimeouts' = advanceTimeouts + 1
               ELSE UNCHANGED advanceTimeouts
            /\ UNCHANGED <<displayedText, charIndex>>
    /\ UNCHANGED <<reducedMotion, hMounted, hActiveIndex, hIsPaused,
                   scrollTarget, lateSetState>>
    /\ UNCHANGED <<tvars, svars, ovars, pvars>>

\* a 2 s auto-advance timeout fires: setActiveIndex(prev => prev + 1)
AutoAdvance ==
    /\ advanceTimeouts > 0
    /\ advanceTimeouts' = advanceTimeouts - 1
    /\ IF hMounted
       THEN /\ HSetActiveIndex(hActiveIndex + 1)
            /\ UNCHANGED lateSetState
       ELSE /\ lateSetState' = lateSetState + 1
            /\ UNCHANGED <<hActiveIndex, typingInterval, isTyping, displayedText>>
    /\ UNCHANGED <<reducedMotion, hMounted, hIsPaused, charIndex, scrollTarget>>
    /\ UNCHANGED <<tvars, svars, ovars, pvars>>

\* CinematicHistory unmounts: effect cleanups of the items and the observers
HUnmount ==
    /\ hMounted
    /\ hMounted' = FALSE
    /\ typingInterval' =
         [i \in HistIdx |-> IF HadCleanup(i) THEN FALSE ELSE typingInterval[i]]
    /\ scrollTarget' = NoTarget
    /\ UNCHANGED <<reducedMotion, hActiveIndex, hIsPaused, charIndex,
                   displayedText, isTyping, advanceTimeouts, lateSetState>>
    /\ UNCHANGED <<tvars, svars, ovars, pvars>>

\* useReducedMotion handleChange(event) as seen by CinematicHistory
HMotionChange(matches) ==
    /\ hMounted
    /\ reducedMotion' = matches
    /\ HRender(hActiveIndex, hIsPaused, matches)
    /\ UNCHANGED <<hMounted, hActiveIndex, hIsPaused, charIndex,
                   advanceTimeouts, scrollTarget, lateSetState>>
    /\ UNCHANGED <<tvars, svars, ovars, pvars>>

(* ==================== CompanyTimeline / DesktopTimeline ================ *)

TlIdx == 0 .. (tLen - 1)
TimerIds == 1 .. MaxTimers
Off == 0 - 1

\* ids of the outstanding timers of a pool
Live(pool) == {id \in TimerIds : pool[id] # Off}

\* the id setTimeout / setInterval hands out: not outstanding, not the one
\* the ref still holds
FreshId(pool, ref) ==
    CHOOSE id \in TimerIds :
        /\ pool[id] = Off /\ id # ref
        /\ \A other \in TimerIds : (pool[other] = Off /\ other # ref) => id <= other

CanArm(pool, ref) == \E id \in TimerIds : pool[id] = Off /\ id # ref

\* clearTimeout(ref) / clearInterval(ref) behind `if (ref.current)`
ClearTimer(pool, ref) ==
    IF ref # 0 THEN [pool EXCEPT ![ref] = Off] ELSE pool

\* cleanup of the autoplay effect
AutoplayCleanup(pool, ref) == ClearTimer(pool, ref)

\* autoplay effect re-run for the new (auto, mobile): its dependencies are
\* [isAutoplay, isMobile]; cleanup of the previous run, then the body
TRender(auto, mobile) ==
    IF auto = isAutoplay /\ mobile = isMobile
    THEN UNCHANGED <<intervals, autoplayRef>>
    ELSE LET cleaned == AutoplayCleanup(intervals, autoplayRef)
         IN  IF auto /\ ~mobile
             THEN /\ CanArm(cleaned, autoplayRef)
                  /\ autoplayRef' = FreshId(cleaned, autoplayRef)
                  /\ intervals' =
                       [cleaned EXCEPT ![FreshId(cleaned, autoplayRef)] = AutoplayDelay]
             ELSE /\ intervals' = cleaned
                  /\ UNCHANGED autoplayRef

\* handleInteraction without its clearTimeout
InteractionCleared_NoClear == timeouts

\* the timers left after handleInteraction cleared inactivityRef
InteractionCleared == ClearTimer(timeouts, inactivityRef)

\* handleInteraction, as captured by the last render (it reads isAutoplay):
\* the part that touches the inactivity timeout
handleInteraction ==
    IF isAutoplay
    THEN /\ CanArm(InteractionCleared, inactivityRef)
         /\ inactivityRef' = FreshId(InteractionCleared, inactivityRef)
         /\ timeouts' = [InteractionCleared EXCEPT
                           ![FreshId(InteractionCleared, inactivityRef)] = InactivityDelay]
    ELSE UNCHANGED <<inactivityRef, timeouts>>

\* a click or key press inside the section whose own handler left
\* activeIndex = a and (before handleInteraction ran) isAutoplay = auto
SectionEvent(a, auto) ==
    /\ tActiveIndex' = a
    /\ isAutoplay' = (IF isAutoplay THEN FALSE ELSE auto)
    /\ handleInteraction
    /\ TRender(IF isAutoplay THEN FALSE ELSE auto, isMobile)
    /\ sinceInteraction' = 0
    /\ autoTicks' = 0 /\ autoStart' = 0

\* Math.floor in the place of Math.round
Round_Floor(num, den) == num \div den

\* Math.round(x) for x = num / den: the floor of x + 1/2
Round(num, den) == (2 * num + den) \div (2 * den)

\* handleTrackClick: the index for a click at pct percent of the track width
TrackIndex(pct) ==
    Max(0, Min(tLen - 1, Round(pct * (tLen - 1), 100)))

\* click on the Pause / Autoplay button: toggleAutoplay, then the section's onClick
ClickToggle ==
    /\ tMounted /\ ~isMobile
    /\ SectionEvent(tActiveIndex, ~isAutoplay)
    /\ userToggledOff' = isAutoplay
    /\ UNCHANGED <<tLen, tMounted, pointerInside, isMobile, dotTimeouts>>
    /\ UNCHANGED <<reducedMotion, hvars, lateSetState, svars, ovars, pvars>>

\* click on the Previous year button (disabled at index 0)
ClickPrev ==
    /\ tMounted /\ ~isMobile
    /\ tActiveIndex > 0
    /\ SectionEvent(tActiveIndex - 1, isAutoplay)
    /\ UNCHANGED <<tLen, tMounted, pointerInside, isMobile, dotTimeouts, userToggledOff>>
    /\ UNCHANGED <<reducedMotion, hvars, lateSetState, svars, ovars, pvars>>

\* click on the Next year button (disabled at the last index)
ClickNext ==
    /\ tMounted /\ ~isMobile
    /\ tActiveIndex < tLen - 1
    /\ SectionEvent(tActiveIndex + 1, isAutoplay)
    /\ UNCHANGED <<tLen, tMounted, pointerInside, isMobile, dotTimeouts, userToggledOff>>
    /\ UNCHANGED <<reducedMotion, hvars, lateSetState, svars, ovars, pvars>>

\* DesktopTimeline.handleKeyDown
KeyIndex(key) ==
    IF key = "ArrowLeft" /\ tActiveIndex > 0 THEN tActiveIndex - 1
    ELSE IF key = "ArrowRight" /\ tActiveIndex < tLen - 1 THEN tActiveIndex + 1
    ELSE tActiveIndex

\* key press on the slider (desktop) or elsewhere in the section
KeyDown(key) ==
    /\ tMounted
    /\ SectionEvent(IF isMobile THEN tActiveIndex ELSE KeyIndex(key), isAutoplay)
    /\ UNCHANGED <<tLen, tMounted, pointerInside, isMobile, dotTimeouts, userToggledOff>>
    /\ UNCHANGED <<reducedMotion, hvars, lateSetState, svars, ovars, pvars>>

\* click on the track at pct percent of its width
ClickTrack(pct) ==
    /\ tMounted /\ ~isMobile
    /\ SectionEvent(TrackIndex(pct), isAutoplay)
    /\ UNCHANGED <<tLen, tMounted, pointerInside, isMobile, dotTimeouts, userToggledOff>>
    /\ UNCHANGED <<reducedMotion, hvars, lateSetState, svars, ovars, pvars>>

\* where handleTrackClick sees a pointer click on dot index, in percent of
\* the track: the dots are spread over the track with justify-between
DotPercent(index) ==
    IF tLen > 1 THEN (100 * index) \div (tLen - 1) ELSE 0

\* where handleTrackClick sees the click that Enter or Space on a focused
\* dot produces: the event has clientX 0 and the track begins right of the
\* viewport's left edge, so (clientX - rect.left) / rect.width is negative
KeyboardPercent == 0 - 10

\* click on a dot of the track, by the pointer or from the keyboard:
\* handleDotClick queues setActiveIndex(index), the click bubbles to the
\* track's handleTrackClick, which sets activeIndex at once from the
\* event's clientX, and then to the section's onClick. The keydown that
\* precedes a click from the keyboard is a step of its own, KeyDown
ClickDot(index, keyboard) ==
    /\ tMounted /\ ~isMobile
    /\ Len(dotTimeouts) < MaxDotTimeouts
    /\ dotTimeouts' = Append(dotTimeouts, index)
    /\ SectionEvent(TrackIndex(IF keyboard THEN KeyboardPercent
                                           ELSE DotPercent(index)),
                    isAutoplay)
    /\ UNCHANGED <<tLen, tMounted, pointerInside, isMobile, userToggledOff>>
    /\ UNCHANGED <<reducedMotion, hvars, lateSetState, svars, ovars, pvars>>

\* click on a year label below the track: handleDotClick queues
\* setActiveIndex(index); the labels are outside the track
ClickYearLabel(index) ==
    /\ tMounted /\ ~isMobile
    /\ Len(dotTimeouts) < MaxDotTimeouts
    /\ dotTimeouts' = Append(dotTimeouts, index)
    /\ SectionEvent(tActiveIndex, isAutoplay)
    /\ UNCHANGED <<tLen, tMounted, pointerInside, isMobile, userToggledOff>>
    /\ UNCHANGED <<reducedMotion, hvars, lateSetState, svars, ovars, pvars>>

\* click elsewhere inside the section (header, card, accordion)
ClickSection ==
    /\ tMounted
    /\ SectionEvent(tActiveIndex, isAutoplay)
    /\ UNCHANGED <<tLen, tMounted, pointerInside, isMobile, dotTimeouts, userToggledOff>>
    /\ UNCHANGED <<reducedMotion, hvars, lateSetState, svars, ovars, pvars>>

\* the pointer enters or leaves the section (hover) or focus moves into or
\* out of it: the section binds only onClick and onKeyDown, so no handler runs
PointerMove ==
    /\ tMounted
    /\ pointerInside' = ~pointerInside
    /\ UNCHANGED <<tLen, autoTicks, autoStart, tMounted, tActiveIndex, isAutoplay, isMobile, autoplayRef,
                   inactivityRef, intervals, timeouts, dotTimeouts,
                   sinceInteraction, userToggledOff>>
    /\ UNCHANGED <<reducedMotion, hvars, lateSetState, svars, ovars, pvars>>

\* the index the autoplay interval moves to
\* the autoplay updater without wraparound
AutoplayNext_Clamp(prev) == IF prev >= tLen - 1 THEN prev ELSE prev + 1

AutoplayNext(prev) == IF prev >= tLen - 1 THEN 0 ELSE prev + 1

\* the 6 s autoplay interval `id` fires
AutoplayTick(id) ==
    /\ intervals[id] = 0
    /\ intervals' = [intervals EXCEPT ![id] = AutoplayDelay]
    /\ IF tMounted
       THEN /\ tActiveIndex' = AutoplayNext(tActiveIndex)
            /\ IF autoTicks = 0 \/ autoTicks >= tLen
               THEN autoTicks' = 1 /\ autoStart' = tActiveIndex
               ELSE autoTicks' = autoTicks + 1 /\ UNCHANGED autoStart
            /\ UNCHANGED lateSetState
       ELSE /\ lateSetState' = lateSetState + 1
            /\ UNCHANGED <<tActiveIndex, autoTicks, autoStart>>
    /\ UNCHANGED <<tLen, tMounted, pointerInside, isAutoplay, isMobile, autoplayRef, inactivityRef,
                   timeouts, dotTimeouts, sinceInteraction, userToggledOff>>
    /\ UNCHANGED <<reducedMotion, hvars, svars, ovars, pvars>>

\* the 12 s inactivity timeout `id` fires: setIsAutoplay(true)
InactivityFire(id) ==
    /\ timeouts[id] = 0
    /\ timeouts' = [timeouts EXCEPT ![id] = Off]
    /\ IF tMounted
       THEN /\ isAutoplay' = TRUE
            /\ TRender(TRUE, isMobile)
            /\ UNCHANGED lateSetState
       ELSE /\ lateSetState' = lateSetState + 1
            /\ UNCHANGED <<isAutoplay, intervals, autoplayRef>>
    /\ UNCHANGED <<tLen, autoTicks, autoStart, tMounted, pointerInside, tActiveIndex, isMobile, inactivityRef,
                   dotTimeouts, sinceInteraction, userToggledOff>>
    /\ UNCHANGED <<reducedMotion, hvars, svars, ovars, pvars>>

\* the oldest handleDotClick timeout fires: setActiveIndex(index)
DotTimeoutFire ==
    /\ dotTimeouts # <<>>
    /\ dotTimeouts' = Tail(dotTimeouts)
    /\ IF tMounted
       THEN /\ tActiveIndex' = Head(dotTimeouts)
            /\ UNCHANGED lateSetState
       ELSE /\ lateSetState' = lateSetState + 1
            /\ UNCHANGED tActiveIndex
    /\ autoTicks' = 0 /\ autoStart' = 0
    /\ UNCHANGED <<tLen, tMounted, pointerInside, isAutoplay, isMobile, autoplayRef, inactivityRef,
                   intervals, timeouts, sinceInteraction, userToggledOff>>
    /\ UNCHANGED <<reducedMotion, hvars, svars, ovars, pvars>>

\* TimeStep ms pass with no event; a timer that is due fires first
Elapse(pool) == [id \in TimerIds |->
                   IF pool[id] = Off THEN Off ELSE Max(0, pool[id] - TimeStep)]

Advance ==
    /\ \A id \in TimerIds : intervals[id] # 0 /\ timeouts[id] # 0
    /\ dotTimeouts = <<>>
    /\ intervals' = Elapse(intervals)
    /\ timeouts' = Elapse(timeouts)
    /\ sinceInteraction' = Min(InactivityDelay, sinceInteraction + TimeStep)
    /\ UNCHANGED <<tLen, autoTicks, autoStart, tMounted, pointerInside, tActiveIndex, isAutoplay, isMobile, autoplayRef,
                   inactivityRef, dotTimeouts, userToggledOff>>
    /\ UNCHANGED <<reducedMotion, hvars, lateSetState, svars, ovars, pvars>>

\* the viewport crosses the mobile breakpoint
Resize ==
    /\ tMounted
    /\ isMobile' = ~isMobile
    /\ TRender(isAutoplay, ~isMobile)
    /\ UNCHANGED <<tLen, autoTicks, autoStart, tMounted, pointerInside, tActiveIndex, isAutoplay, inactivityRef, timeouts,
                   dotTimeouts, sinceInteraction, userToggledOff>>
    /\ UNCHANGED <<reducedMotion, hvars, lateSetState, svars, ovars, pvars>>

\* useReducedMotion handleChange(event) as seen by CompanyTimeline
TMotionChange(matches) ==
    /\ tMounted
    /\ reducedMotion' = matches
    /\ UNCHANGED <<hvars, lateSetState, tvars, svars, ovars, pvars>>

\* CompanyTimeline unmounts: only the autoplay effect has a cleanup
TUnmount ==
    /\ tMounted
    /\ tMounted' = FALSE
    /\ intervals' = AutoplayCleanup(intervals, autoplayRef)
    /\ UNCHANGED <<tLen, autoTicks, autoStart, pointerInside, tActiveIndex, isAutoplay, isMobile, autoplayRef, inactivityRef,
                   timeouts, dotTimeouts, sinceInteraction, userToggledOff>>
    /\ UNCHANGED <<reducedMotion, hvars, lateSetState, svars, ovars, pvars>>

\* state after the first render of a timeline with n entries; with no entry
\* the render reads timelineData[0].year and throws, so nothing is mounted
TInitAt(n, mobile) ==
    /\ tLen = n
    /\ autoTicks = 0
    /\ autoStart = 0
    /\ tMounted = (n > 0)
    /\ tActiveIndex = 0
    /\ isAutoplay = FALSE
    /\ isMobile = mobile
    /\ autoplayRef = 0
    /\ inactivityRef = 0
    /\ intervals = [id \in TimerIds |-> Off]
    /\ timeouts = [id \in TimerIds |-> Off]
    /\ dotTimeouts = <<>>
    /\ sinceInteraction = InactivityDelay
    /\ userToggledOff = FALSE
    /\ pointerInside = FALSE

\* mounted with n entries on either side of the mobile breakpoint
TInitN(n) == \E mobile \in BOOLEAN : TInitAt(n, mobile)

\* mounted with the shipped entries on a desktop viewport
TInit == TInitAt(TimelineLen, FALSE)


(* ------------- CompanyTimeline.tsx (scroll-driven variant) ------------ *)
\* self.progress is a real in [0, 1]; the model carries it in units of
\* 1/ProgressDen
ProgressDen == 1000

\* years of timelineData
timelineYear(i) == 2021 + i

SIdx == 0 .. (sLen - 1)

\* the resolver without the Math.min clamp
yearIndex_NoClamp(p, n) == (p * n) \div ProgressDen

\* Math.min(Math.floor(self.progress * timelineData.length),
\*          timelineData.length - 1)
yearIndex(p, n) == Min((p * n) \div ProgressDen, n - 1)

\* gallery.length of the entries of timelineData (2021 .. 2025)
galleryLength == <<2, 2, 3, 2, 3>>

\* heroImage and gallery of card k: the URLs of the data are all
\* different, <<k, j>> stands for the j-th gallery image of entry k
heroImage(k) == <<k, 0>>
gallery(k) == [j \in 1 .. galleryLength[k + 1] |-> <<k, j>>]

\* the images of the thumbnail buttons of card k: the hero image and
\* data.gallery.slice(0, 3)
Thumbnails(k) ==
    IF Len(gallery(k)) > 0
    THEN {heroImage(k)} \cup
         {gallery(k)[j] : j \in 1 .. Min(ThumbCount, Len(gallery(k)))}
    ELSE {}

\* a card that keeps its image when it becomes active
ImageAfterRender_Keep(k, newYear) == activeImage[k]

\* TimelineCard's reset effect, run when isActive = (data.year === activeYear)
\* changed: a card that became active shows its hero image again
ImageAfterRender(k, newYear) ==
    IF timelineYear(k) = newYear /\ timelineYear(k) # activeYear
    THEN heroImage(k)
    ELSE activeImage[k]

\* re-render of the cards after setActiveYear(newYear)
CardRender(newYear) ==
    activeImage' = [k \in SIdx |-> ImageAfterRender(k, newYear)]

\* TimelineCard.handleGalleryClick(imageSrc) on card k
handleGalleryClick(k, imageSrc) ==
    /\ sMounted
    /\ imageSrc \in Thumbnails(k)
    /\ activeImage' = [activeImage EXCEPT ![k] = imageSrc]
    /\ UNCHANGED <<region, sMounted, sLen, activeYear, scrollProgress,
                   isIndicatorVisible, pending, finalProgress, resolved,
                   resolvedPrev>>
    /\ UNCHANGED <<reducedMotion, hvars, lateSetState, tvars, ovars, pvars>>

\* progress values a scroll position can report
ProgressVals == {0, 333, 334, ProgressDen - 1, ProgressDen}

\* a scroll gesture ending at progress p that crossed the 'top 50%' or
\* 'bottom 50%' line of the cards in K: ScrollTrigger queues the container's
\* onUpdate and one onEnter/onEnterBack per card
ScrollGesture(p, K) ==
    /\ sMounted
    /\ pending = {}
    /\ Cardinality(K) <= MaxEntered
    /\ pending' = {<<"update", p>>} \cup {<<"enter", k>> : k \in K}
    /\ finalProgress' = p
    /\ UNCHANGED activeImage
    /\ UNCHANGED <<region, sMounted, sLen, activeYear, scrollProgress,
                   isIndicatorVisible, resolved, resolvedPrev>>
    /\ UNCHANGED <<reducedMotion, hvars, lateSetState, tvars, ovars, pvars>>

\* container ScrollTrigger onUpdate
onUpdate(p) ==
    /\ sMounted
    /\ <<"update", p>> \in pending
    /\ pending' = pending \ {<<"update", p>>}
    /\ scrollProgress' = p * 100
    /\ activeYear' = timelineYear(yearIndex(p, sLen))
    /\ CardRender(timelineYear(yearIndex(p, sLen)))
    /\ resolved' = <<p, yearIndex(p, sLen)>>
    /\ resolvedPrev' = resolved
    /\ UNCHANGED <<region, sMounted, sLen, isIndicatorVisible, finalProgress>>
    /\ UNCHANGED <<reducedMotion, hvars, lateSetState, tvars, ovars, pvars>>

\* per-card ScrollTrigger onEnter / onEnterBack
CardEnter(k) ==
    /\ sMounted
    /\ <<"enter", k>> \in pending
    /\ pending' = pending \ {<<"enter", k>>}
    /\ activeYear' = timelineYear(k)
    /\ CardRender(timelineYear(k))
    /\ UNCHANGED <<region, sMounted, sLen, scrollProgress, isIndicatorVisible,
                   finalProgress, resolved, resolvedPrev>>
    /\ UNCHANGED <<reducedMotion, hvars, lateSetState, tvars, ovars, pvars>>

\* the year a queued callback passes to setActiveYear
CallbackYear(cb) ==
    IF cb[1] = "update"
    THEN timelineYear(yearIndex(cb[2], sLen))
    ELSE timelineYear(cb[2])

\* the callbacks of one ScrollTrigger pass run in one task of a build that
\* batches state updates: the last setActiveYear of the pass wins and the
\* cards render once, from the year before the pass to that one
ScrollPass(last) ==
    /\ sMounted
    /\ Cardinality(pending) >= 2
    /\ last \in pending
    /\ pending' = {}
    /\ activeYear' = CallbackYear(last)
    /\ CardRender(CallbackYear(last))
    /\ IF \E p \in ProgressVals : <<"update", p>> \in pending
       THEN LET p == CHOOSE q \in ProgressVals : <<"update", q>> \in pending
            IN  /\ scrollProgress' = p * 100
                /\ resolved' = <<p, yearIndex(p, sLen)>>
                /\ resolvedPrev' = resolved
       ELSE UNCHANGED <<scrollProgress, resolved, resolvedPrev>>
    /\ UNCHANGED <<region, sMounted, sLen, isIndicatorVisible, finalProgress>>
    /\ UNCHANGED <<reducedMotion, hvars, lateSetState, tvars, ovars, pvars>>

\* the callbacks of the container ScrollTrigger besides onUpdate
ContainerKinds == {"onEnter", "onLeave", "onEnterBack", "onLeaveBack"}

\* where the scroll position is, relative to the tracked region, when
\* ScrollTrigger calls the callback and after it
RegionFrom(kind) ==
    CASE kind = "onEnter" -> "before"
      [] kind = "onLeave" -> "inside"
      [] kind = "onEnterBack" -> "after"
      [] kind = "onLeaveBack" -> "inside"

RegionTo(kind) ==
    CASE kind = "onEnter" -> "inside"
      [] kind = "onLeave" -> "after"
      [] kind = "onEnterBack" -> "inside"
      [] kind = "onLeaveBack" -> "before"

\* every callback showing the indicator
VisibleAfter_Always(kind) == TRUE

\* the value the callback passes to setIsIndicatorVisible
VisibleAfter(kind) == kind \in {"onEnter", "onEnterBack"}

\* container ScrollTrigger onEnter / onLeave / onEnterBack / onLeaveBack
ContainerCallback(kind) ==
    /\ sMounted
    /\ region = RegionFrom(kind)
    /\ region' = RegionTo(kind)
    /\ isIndicatorVisible' = VisibleAfter(kind)
    /\ UNCHANGED activeImage
    /\ UNCHANGED <<sMounted, sLen, activeYear, scrollProgress, pending,
                   finalProgress, resolved, resolvedPrev>>
    /\ UNCHANGED <<reducedMotion, hvars, lateSetState, tvars, ovars, pvars>>

\* useReducedMotion change: the effect's cleanup ctx.revert() kills every
\* trigger, the body creates them again
SMotionChange(matches) ==
    /\ sMounted
    /\ matches # reducedMotion
    /\ reducedMotion' = matches
    /\ pending' = {}
    /\ UNCHANGED activeImage
    /\ UNCHANGED <<region, sMounted, sLen, activeYear, scrollProgress,
                   isIndicatorVisible, finalProgress, resolved, resolvedPrev>>
    /\ UNCHANGED <<hvars, lateSetState, tvars, ovars, pvars>>

\* unmount: ctx.revert()
SUnmount ==
    /\ sMounted
    /\ sMounted' = FALSE
    /\ pending' = {}
    /\ UNCHANGED activeImage
    /\ UNCHANGED <<region, sLen, activeYear, scrollProgress,
                   isIndicatorVisible, finalProgress, resolved, resolvedPrev>>
    /\ UNCHANGED <<reducedMotion, hvars, lateSetState, tvars, ovars, pvars>>

\* state after mount with n entries
SInitN(n) ==
    /\ sLen = n
    /\ sMounted = TRUE
    /\ region = "before"
    /\ activeImage = [k \in 0 .. (n - 1) |-> heroImage(k)]
    /\ activeYear = timelineYear(0)
    /\ scrollProgress = 0
    /\ isIndicatorVisible = FALSE
    /\ pending = {}
    /\ finalProgress = 0
    /\ resolved = <<0, 0>>
    /\ resolvedPrev = <<0, 0>>

SInit == SInitN(TimelineLen)

(* ------------------- hooks/useIntersectionObserver.ts ----------------- *)
NoEntry == 0 - 1

\* the effect body without its early return
OEffect_NoSkip(once, triggered) ==
    IF ~ioSupported THEN
        /\ oObserving' = FALSE
        /\ oPhase' = "threw"
    ELSE
        /\ oObserving' = TRUE
        /\ oPhase' = "mounted"

\* the effect body: returns early once triggered with triggerOnce, otherwise
\* constructs an observer, which throws where IntersectionObserver is
\* not defined
OEffect(once, triggered) ==
    IF once /\ triggered THEN
        /\ oObserving' = FALSE
        /\ oPhase' = "mounted"
    ELSE IF ~ioSupported THEN
        /\ oObserving' = FALSE
        /\ oPhase' = "threw"
    ELSE
        /\ oObserving' = TRUE
        /\ oPhase' = "mounted"

\* first render and first run of the effect
OMount ==
    /\ oPhase = "idle"
    /\ OEffect(oTriggerOnce, hasTriggered)
    /\ UNCHANGED <<ioSupported, oIsIntersecting, oEntryRatio, hasTriggered,
                   oTriggerOnce, oVisibleCalls>>
    /\ UNCHANGED <<reducedMotion, hvars, lateSetState, tvars, svars, pvars>>

\* the observer's callback
OCallback(isVisible, ratio) ==
    /\ oPhase = "mounted"
    /\ oObserving
    /\ isVisible => oVisibleCalls < MaxCalls
    /\ oIsIntersecting' = isVisible
    /\ oEntryRatio' = ratio
    /\ oVisibleCalls' = IF isVisible THEN oVisibleCalls + 1 ELSE oVisibleCalls
    /\ IF isVisible /\ oTriggerOnce
       THEN hasTriggered' = TRUE /\ oObserving' = FALSE
       ELSE UNCHANGED <<hasTriggered, oObserving>>
    /\ UNCHANGED <<ioSupported, oPhase, oTriggerOnce>>
    /\ UNCHANGED <<reducedMotion, hvars, lateSetState, tvars, svars, pvars>>

\* a render that changes a dependency of the effect (the triggerOnce
\* option or the identity of onIntersect): cleanup disconnects, the body
\* runs again
ORerender(once) ==
    /\ oPhase = "mounted"
    /\ oTriggerOnce' = once
    /\ OEffect(once, hasTriggered)
    /\ UNCHANGED <<ioSupported, oIsIntersecting, oEntryRatio, hasTriggered,
                   oVisibleCalls>>
    /\ UNCHANGED <<reducedMotion, hvars, lateSetState, tvars, svars, pvars>>

\* unmount: cleanup disconnects the observer
OUnmount ==
    /\ oPhase = "mounted"
    /\ oPhase' = "unmounted"
    /\ oObserving' = FALSE
    /\ UNCHANGED <<ioSupported, oIsIntersecting, oEntryRatio, hasTriggered,
                   oTriggerOnce, oVisibleCalls>>
    /\ UNCHANGED <<reducedMotion, hvars, lateSetState, tvars, svars, pvars>>

\* before the first render of a host that passes triggerOnce = once, in an
\* environment that has IntersectionObserver or not
OInitIn(supported, once) ==
    /\ ioSupported = supported
    /\ oPhase = "idle"
    /\ oObserving = FALSE
    /\ oIsIntersecting = FALSE
    /\ oEntryRatio = NoEntry
    /\ hasTriggered = FALSE
    /\ oTriggerOnce = once
    /\ oVisibleCalls = 0

OInit == OInitIn(TRUE, FALSE)

(* ------------------- analytics arrays and MVVG cards ------------------- *)
\* mvvgData[c].id and .title
mvvgData == <<[id |-> "mission", title |-> "Our Mission"],
              [id |-> "vision",  title |-> "Our Vision"],
              [id |-> "values",  title |-> "Our Values"],
              [id |-> "goals",   title |-> "Our Goals"]>>

MvvIdx == 1 .. MvvLen

\* testimonialData[t].id and .name
testimonialData == <<[id |-> "testimonial-1", name |-> "Sarah Chen"],
                     [id |-> "testimonial-2", name |-> "Marcus Williams"],
                     [id |-> "testimonial-3", name |-> "Emily Rodriguez"],
                     [id |-> "testimonial-4", name |-> "David Park"]>>

TestimonialIdx == 1 .. TestimonialsLen

\* an initialisation that starts from an empty array again
InitArray_Reset(a) == <<>>

\* `window.x = window.x || []` for an array that exists: every array,
\* the empty one included, is truthy, so the same array stays
InitArray(a) == a

\* trackMvvClick(id, label) at time t: the array after the push
trackMvvClick(arr, id, label, t) ==
    Append(arr, [id |-> id, label |-> label, timestamp |-> t])

\* trackPdfOpen(id, name) at time t: the array after the push
trackPdfOpen(arr, id, name, t) ==
    Append(arr, [id |-> id, name |-> name, timestamp |-> t])

\* what Date.now() can return at the next reading when it returned t at
\* this one: the same millisecond or a later one
DateNow(t) == {t, t + 1}

\* room for one more record in the analytics arrays
CanRecord == Len(aboutMvvClicks) + Len(testimonialPdfOpened) < MaxRecords

\* cleanup of the useReducedMotion effect: removeEventListener
HookCleanup(listening) == FALSE

\* an unmount cleanup that forgets clearTimeout
SliderCleanup_NoClear(pool, ref) == pool

\* unmount cleanup of the slider: clearTimeout(inactivityRef.current)
SliderCleanup(pool, ref) == ClearTimer(pool, ref)

\* the render of the page's mount is committed and its passive effects have
\* not run yet: the effect of useReducedMotion has registered no listener
EffectsPending == aMounted /\ ~mqListening

\* the pending passive effects throw when they run: useIntersectionObserver
\* constructs an IntersectionObserver that the environment does not define
EffectsThrow == EffectsPending /\ ~ioSupported

\* the page after work that needs React to render, which would leave
\* keyupClick = key, the timer pool = pool with inactivityRef = ref,
\* escListening = esc, the grid cards = grid and the carousel's autoplay =
\* running. React runs the pending passive effects of the mount first: the
\* listener of useReducedMotion is registered; if an effect throws, React
\* unmounts the root and every cleanup runs
Rendered(key, pool, ref, esc, grid, running) ==
    IF EffectsThrow
    THEN /\ aMounted' = FALSE
         /\ keyupClick' = 0
         /\ lTimeouts' = SliderCleanup(pool, ref)
         /\ escListening' = FALSE
         /\ mqListening' = HookCleanup(TRUE)
         /\ gridCards' = {}
         /\ swRunning' = FALSE
    ELSE /\ aMounted' = aMounted
         /\ keyupClick' = key
         /\ lTimeouts' = pool
         /\ escListening' = esc
         /\ mqListening' = TRUE
         /\ gridCards' = grid
         /\ swRunning' = running

\* handleToggle of card c; the clock reads t2 afterwards
handleToggle(c, t2) ==
    /\ CanRecord
    /\ isExpanded' = [isExpanded EXCEPT ![c] = ~isExpanded[c]]
    /\ aboutMvvClicks' =
         trackMvvClick(aboutMvvClicks, mvvgData[c].id, mvvgData[c].title, now)
    /\ now' = t2

CardKeys == {"Enter", " ", "Tab"}

\* a pointer click on the Read more / Read less button of card c: onClick
CardClick(c) ==
    /\ aMounted
    /\ \E t2 \in DateNow(now) : handleToggle(c, t2)
    /\ Rendered(keyupClick, lTimeouts, lInactivityRef, escListening,
                gridCards, swRunning)
    /\ UNCHANGED <<testimonialPdfOpened, windowOpened>>
    /\ UNCHANGED <<sliderVariant, selectedTestimonial, modalType, swiperFailed,
                   lIsPaused, lInactivityRef, prefersReducedMotion, mqMatches>>
    /\ UNCHANGED <<reducedMotion, hvars, lateSetState, tvars, svars, ovars>>

\* a key goes down on the focused button of card c: onKeyDown runs
\* handleKeyDown. For Enter the button's click is a default action of
\* keydown and preventDefault cancels it. For Space the button's click is
\* dispatched when the key goes up, and the preventDefault of keydown
\* cancels that click in some browsers and not in others. The handler runs
\* on every keydown: on the auto-repeat of a held Space key and on Enter
\* pressed while Space is held as well, and the click of keyup stays due
CardKeyDown(c, key) ==
    /\ aMounted
    /\ IF key \in {"Enter", " "}
       THEN /\ \E t2 \in DateNow(now) : handleToggle(c, t2)
            /\ \E clickOnKeyUp \in (IF key # " " THEN {FALSE}
                                    ELSE IF keyupClick = 0 THEN BOOLEAN
                                    ELSE {TRUE}) :
                 Rendered(IF key # " " THEN keyupClick
                          ELSE IF clickOnKeyUp THEN c ELSE 0,
                          lTimeouts, lInactivityRef, escListening, gridCards,
                          swRunning)
       ELSE UNCHANGED <<isExpanded, aboutMvvClicks, now, keyupClick, aMounted,
                        lTimeouts, escListening, mqListening, gridCards,
                        swRunning>>
    /\ UNCHANGED <<testimonialPdfOpened, windowOpened>>
    /\ UNCHANGED <<sliderVariant, selectedTestimonial, modalType, swiperFailed,
                   lIsPaused, lInactivityRef, prefersReducedMotion, mqMatches>>
    /\ UNCHANGED <<reducedMotion, hvars, lateSetState, tvars, svars, ovars>>

\* the Space key goes up and the browser dispatches the button's click:
\* onClick runs handleToggle
CardKeyUpClick ==
    /\ aMounted
    /\ keyupClick # 0
    /\ \E t2 \in DateNow(now) : handleToggle(keyupClick, t2)
    /\ Rendered(0, lTimeouts, lInactivityRef, escListening, gridCards,
                swRunning)
    /\ UNCHANGED <<testimonialPdfOpened, windowOpened>>
    /\ UNCHANGED <<sliderVariant, selectedTestimonial, modalType, swiperFailed,
                   lIsPaused, lInactivityRef, prefersReducedMotion, mqMatches>>
    /\ UNCHANGED <<reducedMotion, hvars, lateSetState, tvars, svars, ovars>>

(* -------------------------- TestimonialSlider -------------------------- *)
NoSelection == 0

\* the two versions of TestimonialSlider.tsx: the one with the modal dialog
\* and the one whose cards open the PDF in a new tab
SliderVariants == {"modal", "newTab"}

\* the cards FallbackSlider renders: testimonialData.map
FallbackCards_First == {testimonialData[1].id}

FallbackCards == {testimonialData[t].id : t \in TestimonialIdx}

\* the cards of the static grid in a render with swiperFailed = failed
SliderRender(failed) == IF failed THEN FallbackCards ELSE {}

\* ESC effect for modalType = mt: the listener is added only `if (modalType)`
\* and the cleanup of the previous run removed the old one
EscEffect_Always(mt) == TRUE

EscEffect(mt) == mt # "null"

\* handleOpenPdf(testimonialData[t]) of the slider with the modal;
\* `canViewInline || true` is always true
handleOpenPdf(t) ==
    /\ aMounted
    /\ sliderVariant = "modal"
    /\ CanRecord
    /\ testimonialPdfOpened' =
         trackPdfOpen(testimonialPdfOpened, testimonialData[t].id,
                      testimonialData[t].name, now)
    /\ now' \in DateNow(now)
    /\ selectedTestimonial' = t
    /\ modalType' = "pdf"
    /\ Rendered(keyupClick, lTimeouts, lInactivityRef, EscEffect("pdf"),
                gridCards, swRunning)
    /\ UNCHANGED <<isExpanded, aboutMvvClicks, windowOpened>>
    /\ UNCHANGED <<sliderVariant, swiperFailed, lIsPaused, lInactivityRef,
                   prefersReducedMotion, mqMatches>>
    /\ UNCHANGED <<reducedMotion, hvars, lateSetState, tvars, svars, ovars>>

\* the Open in New Tab button of the PDF dialog: window.open of the
\* selected testimonial's pdfUrl; the dialog stays open
OpenInNewTab ==
    /\ aMounted
    /\ sliderVariant = "modal"
    /\ modalType = "pdf"
    /\ windowOpened < MaxWindows
    /\ windowOpened' = windowOpened + 1
    /\ UNCHANGED <<aMounted, isExpanded, aboutMvvClicks, testimonialPdfOpened,
                   now, keyupClick, lvars>>
    /\ UNCHANGED <<reducedMotion, hvars, lateSetState, tvars, svars, ovars>>

\* TestimonialCard.handleOpenPdf of the slider without a modal: trackPdfOpen,
\* then window.open in a new tab; the handler sets no state, React does not
\* render and passive effects that are pending stay pending
cardHandleOpenPdf(t) ==
    /\ aMounted
    /\ sliderVariant = "newTab"
    /\ CanRecord
    /\ testimonialPdfOpened' =
         trackPdfOpen(testimonialPdfOpened, testimonialData[t].id,
                      testimonialData[t].name, now)
    /\ now' \in DateNow(now)
    /\ windowOpened' = windowOpened + 1
    /\ UNCHANGED <<aMounted, isExpanded, aboutMvvClicks, keyupClick, lvars>>
    /\ UNCHANGED <<reducedMotion, hvars, lateSetState, tvars, svars, ovars>>

\* handleReadExcerpt(testimonialData[t])
handleReadExcerpt(t) ==
    /\ aMounted
    /\ sliderVariant = "modal"
    /\ selectedTestimonial' = t
    /\ modalType' = "excerpt"
    /\ Rendered(keyupClick, lTimeouts, lInactivityRef, EscEffect("excerpt"),
                gridCards, swRunning)
    /\ UNCHANGED <<isExpanded, aboutMvvClicks, testimonialPdfOpened, now,
                   windowOpened>>
    /\ UNCHANGED <<sliderVariant, swiperFailed, lIsPaused, lInactivityRef,
                   prefersReducedMotion, mqMatches>>
    /\ UNCHANGED <<reducedMotion, hvars, lateSetState, tvars, svars, ovars>>

\* closeModal followed by the re-render and the ESC effect
closeModal ==
    /\ selectedTestimonial' = NoSelection
    /\ modalType' = "null"
    /\ Rendered(keyupClick, lTimeouts, lInactivityRef, EscEffect("null"),
                gridCards, swRunning)
    /\ UNCHANGED <<isExpanded, aboutMvvClicks, testimonialPdfOpened, now,
                   windowOpened>>
    /\ UNCHANGED <<sliderVariant, swiperFailed, lIsPaused, lInactivityRef,
                   prefersReducedMotion, mqMatches>>
    /\ UNCHANGED <<reducedMotion, hvars, lateSetState, tvars, svars, ovars>>

\* the Dialog asks to close (close button, click outside): onOpenChange
DialogClose ==
    /\ aMounted
    /\ modalType # "null"
    /\ closeModal

\* Escape pressed while the window keydown listener handleEsc is registered
EscKey ==
    /\ escListening
    /\ closeModal

\* handleInteraction of the slider with the modal (mouse enters or focus
\* moves into the carousel, which is rendered only while swiperFailed is false)
SliderInteraction ==
    /\ aMounted
    /\ sliderVariant = "modal"
    /\ ~swiperFailed
    /\ IF swRunning
       THEN LET cleared == ClearTimer(lTimeouts, lInactivityRef)
                fresh == FreshId(cleared, lInactivityRef)
            IN  /\ CanArm(cleared, lInactivityRef)
                /\ lIsPaused' = TRUE
                /\ lInactivityRef' = fresh
                /\ Rendered(keyupClick,
                            [cleared EXCEPT ![fresh] = InactivityDelay],
                            fresh, escListening, gridCards, FALSE)
       ELSE UNCHANGED <<swRunning, lIsPaused, lInactivityRef, lTimeouts,
                        aMounted, keyupClick, escListening, mqListening,
                        gridCards>>
    /\ UNCHANGED <<isExpanded, aboutMvvClicks, testimonialPdfOpened, now,
                   windowOpened>>
    /\ UNCHANGED <<sliderVariant, selectedTestimonial, modalType,
                   swiperFailed, prefersReducedMotion, mqMatches>>
    /\ UNCHANGED <<reducedMotion, hvars, lateSetState, tvars, svars, ovars>>

\* the inactivity timeout fires: autoplay.start() on the swiper the ref
\* holds (a destroyed swiper has no autoplay), then setIsPaused(false)
SliderInactivityFire(id) ==
    /\ lTimeouts[id] = 0
    /\ lTimeouts' = [lTimeouts EXCEPT ![id] = Off]
    /\ swRunning' = (aMounted /\ ~swiperFailed)
    /\ IF aMounted
       THEN lIsPaused' = FALSE /\ UNCHANGED lateSetState
       ELSE lateSetState' = lateSetState + 1 /\ UNCHANGED lIsPaused
    /\ UNCHANGED <<avars, sliderVariant, selectedTestimonial, modalType,
                   swiperFailed, gridCards, lInactivityRef, escListening,
                   prefersReducedMotion, mqMatches, mqListening>>
    /\ UNCHANGED <<reducedMotion, hvars, tvars, svars, ovars>>

\* TimeStep milliseconds pass for the slider's timers
SliderAdvance ==
    /\ Live(lTimeouts) # {}
    /\ \A id \in TimerIds : lTimeouts[id] # 0
    /\ lTimeouts' = Elapse(lTimeouts)
    /\ UNCHANGED <<avars, sliderVariant, selectedTestimonial, modalType,
                   swiperFailed, gridCards, lIsPaused, swRunning,
                   lInactivityRef, escListening, prefersReducedMotion,
                   mqMatches, mqListening>>
    /\ UNCHANGED <<reducedMotion, hvars, lateSetState, tvars, svars, ovars>>

\* the carousel reports an error: onError. The Swiper element leaves the
\* tree and is destroyed, the static grid takes its place
SwiperError ==
    /\ aMounted
    /\ ~swiperFailed
    /\ swiperFailed' = TRUE
    /\ Rendered(keyupClick, lTimeouts, lInactivityRef, escListening,
                SliderRender(TRUE), FALSE)
    /\ UNCHANGED <<isExpanded, aboutMvvClicks, testimonialPdfOpened, now,
                   windowOpened>>
    /\ UNCHANGED <<sliderVariant, selectedTestimonial, modalType,
                   lIsPaused, lInactivityRef, prefersReducedMotion, mqMatches>>
    /\ UNCHANGED <<reducedMotion, hvars, lateSetState, tvars, svars, ovars>>

\* the OS-level preference changes to m: the media query dispatches a change
\* event, handleChange of a registered listener sets the state to
\* event.matches; how the carousel's autoplay takes the new autoplay prop is
\* decided by the carousel library
PreferenceChange(m) ==
    /\ m # mqMatches
    /\ mqMatches' = m
    /\ IF mqListening
       THEN IF aMounted
            THEN /\ prefersReducedMotion' = m
                 /\ swRunning' \in {swRunning, ~m /\ ~swiperFailed}
                 /\ UNCHANGED lateSetState
            ELSE /\ lateSetState' = lateSetState + 1
                 /\ UNCHANGED <<prefersReducedMotion, swRunning>>
       ELSE UNCHANGED <<prefersReducedMotion, swRunning, lateSetState>>
    /\ UNCHANGED <<avars, sliderVariant, selectedTestimonial, modalType,
                   swiperFailed, gridCards, lIsPaused, lInactivityRef,
                   lTimeouts, escListening, mqListening>>
    /\ UNCHANGED <<reducedMotion, hvars, tvars, svars, ovars>>

\* the About page unmounts, and the slider and the hook with it; a click
\* still to come from a held key finds no button
AboutUnmount ==
    /\ aMounted
    /\ aMounted' = FALSE
    /\ keyupClick' = 0
    /\ lTimeouts' = SliderCleanup(lTimeouts, lInactivityRef)
    /\ escListening' = FALSE
    /\ mqListening' = HookCleanup(mqListening)
    /\ gridCards' = {}
    /\ swRunning' = FALSE
    /\ UNCHANGED <<isExpanded, aboutMvvClicks, testimonialPdfOpened, now,
                   windowOpened>>
    /\ UNCHANGED <<sliderVariant, selectedTestimonial, modalType, swiperFailed,
                   lIsPaused, lInactivityRef, prefersReducedMotion, mqMatches>>
    /\ UNCHANGED <<reducedMotion, hvars, lateSetState, tvars, svars, ovars>>

\* state of the page right after the render of its mount was committed while
\* the media query reads matches: the state initializer of useReducedMotion
\* has read matches, the passive effects have not run yet
AMountedState(matches) ==
    /\ aMounted' = TRUE
    /\ isExpanded' = [c \in MvvIdx |-> FALSE]
    /\ keyupClick' = 0
    /\ selectedTestimonial' = NoSelection
    /\ modalType' = "null"
    /\ swiperFailed' = FALSE
    /\ gridCards' = SliderRender(FALSE)
    /\ lIsPaused' = FALSE
    /\ swRunning' = ~matches
    /\ lInactivityRef' = 0
    /\ escListening' = EscEffect("null")
    /\ prefersReducedMotion' = matches
    /\ mqListening' = FALSE

\* the About page mounts again: fresh MVVG cards and a fresh slider are
\* rendered and committed; nothing in the render uses IntersectionObserver
AboutMount ==
    /\ ~aMounted
    /\ AMountedState(mqMatches)
    /\ UNCHANGED <<aboutMvvClicks, testimonialPdfOpened, now, windowOpened,
                   sliderVariant, lTimeouts, mqMatches>>
    /\ UNCHANGED <<reducedMotion, hvars, lateSetState, tvars, svars, ovars>>

\* the passive effects of the mount run in a task of their own: the init
\* effect of About, and the effect of useReducedMotion, which adds
\* handleChange to a new MediaQueryList and does not read its matches; the
\* effect of useIntersectionObserver throws where IntersectionObserver is
\* not defined, and React unmounts the root
MountEffects ==
    /\ EffectsPending
    /\ aboutMvvClicks' = InitArray(aboutMvvClicks)
    /\ testimonialPdfOpened' = InitArray(testimonialPdfOpened)
    /\ Rendered(keyupClick, lTimeouts, lInactivityRef, escListening,
                gridCards, swRunning)
    /\ UNCHANGED <<isExpanded, now, windowOpened>>
    /\ UNCHANGED <<sliderVariant, selectedTestimonial, modalType, swiperFailed,
                   lIsPaused, lInactivityRef, prefersReducedMotion, mqMatches>>
    /\ UNCHANGED <<reducedMotion, hvars, lateSetState, tvars, svars, ovars>>

\* state after the render of the first mount of the page built with the
\* given version of the slider was committed, the media query reading
\* matches and the passive effects still to run
AInitIn(matches, variant) ==
    /\ aMounted = TRUE
    /\ isExpanded = [c \in MvvIdx |-> FALSE]
    /\ keyupClick = 0
    /\ aboutMvvClicks = <<>>
    /\ testimonialPdfOpened = <<>>
    /\ now = 0
    /\ windowOpened = 0
    /\ sliderVariant = variant
    /\ selectedTestimonial = NoSelection
    /\ modalType = "null"
    /\ swiperFailed = FALSE
    /\ gridCards = SliderRender(FALSE)
    /\ lIsPaused = FALSE
    /\ swRunning = ~matches
    /\ lInactivityRef = 0
    /\ lTimeouts = [id \in TimerIds |-> Off]
    /\ escListening = EscEffect("null")
    /\ prefersReducedMotion = matches
    /\ mqMatches = matches
    /\ mqListening = FALSE

AInit == AInitIn(FALSE, "modal")

(* ------------------------------- Init --------------------------------- *)
\* state after mount: the typewriter effect and then the reset effect of
\* every HistoryItem have run once. Where IntersectionObserver is not defined
\* the observer effect of CinematicHistory throws during the mount: the tree
\* is unmounted, the typing interval is cleared by its cleanup and the
\* queued setIsTyping(true) is never rendered
HInitIn(supported) ==
    /\ hMounted = supported
    /\ hActiveIndex = 0
    /\ hIsPaused = FALSE
    /\ charIndex = [i \in HistIdx |-> 0]
    /\ displayedText = [i \in HistIdx |-> <<>>]
    /\ isTyping = [i \in HistIdx |-> supported /\ IsActive(i, 0) /\ ~reducedMotion]
    /\ typingInterval =
         [i \in HistIdx |-> supported /\ IsActive(i, 0) /\ ~reducedMotion]
    /\ advanceTimeouts = 0
    /\ scrollTarget = NoTarget

HInit == HInitIn(TRUE)

Init ==
    /\ reducedMotion \in BOOLEAN
    /\ HInit
    /\ TInit
    /\ SInit
    /\ OInit
    /\ AInit
    /\ lateSetState = 0

Ratios == {0, 50, 100}

HNext ==
    \/ \E i \in HistIdx : handleJumpToYear(companyHistoryYear(i))
    \/ ScrollSettled
    \/ \E i \in HistIdx, b \in BOOLEAN, r \in Ratios : ObserverCallback(i, b, r)
    \/ togglePause
    \/ \E i \in HistIdx : TypingTick(i)
    \/ AutoAdvance
    \/ HUnmount
    \/ \E m \in BOOLEAN : HMotionChange(m)

SpecHistory == Init /\ [][HNext]_vars

Keys == {"ArrowLeft", "ArrowRight", "Enter"}
Percents == {0, 30, 50, 70, 100}

TNext ==
    \/ ClickToggle
    \/ ClickPrev
    \/ ClickNext
    \/ ClickSection
    \/ \E key \in Keys : KeyDown(key)
    \/ \E pct \in Percents : ClickTrack(pct)
    \/ \E i \in TlIdx, keyboard \in BOOLEAN : ClickDot(i, keyboard)
    \/ \E i \in TlIdx : ClickYearLabel(i)
    \/ PointerMove
    \/ \E id \in TimerIds : AutoplayTick(id)
    \/ \E id \in TimerIds : InactivityFire(id)
    \/ DotTimeoutFire
    \/ Advance
    \/ Resize
    \/ \E m \in BOOLEAN : TMotionChange(m)
    \/ TUnmount

\* the timeline mounted with any number of entries
InitLengths ==
    /\ reducedMotion \in BOOLEAN
    /\ HInit
    /\ \E n \in {0, 1, TimelineLen} : TInitN(n)
    /\ SInit
    /\ OInit
    /\ AInit
    /\ lateSetState = 0

SpecTimeline == InitLengths /\ [][TNext]_vars

SNext ==
    \/ \E p \in ProgressVals, K \in SUBSET SIdx : ScrollGesture(p, K)
    \/ \E p \in ProgressVals : onUpdate(p)
    \/ \E k \in SIdx : CardEnter(k)
    \/ \E last \in pending : ScrollPass(last)
    \/ \E kind \in ContainerKinds : ContainerCallback(kind)
    \/ \E m \in BOOLEAN : SMotionChange(m)
    \/ SUnmount

\* the scroll-driven timeline mounted with any positive number of entries
InitScrollLengths ==
    /\ reducedMotion \in BOOLEAN
    /\ HInit
    /\ TInit
    /\ \E n \in 1 .. TimelineLen : SInitN(n)
    /\ OInit
    /\ AInit
    /\ lateSetState = 0

SpecScroll == InitScrollLengths /\ [][SNext]_vars

\* scrolling and thumbnail clicks on the cards
CNext ==
    \/ \E p \in ProgressVals, K \in SUBSET SIdx : ScrollGesture(p, K)
    \/ \E p \in ProgressVals : onUpdate(p)
    \/ \E k \in SIdx : CardEnter(k)
    \/ \E last \in pending : ScrollPass(last)
    \/ \E k \in SIdx : \E img \in Thumbnails(k) : handleGalleryClick(k, img)

\* the scroll-driven timeline mounted with CardsLen entries
InitCards ==
    /\ reducedMotion = FALSE
    /\ HInit
    /\ TInit
    /\ SInitN(CardsLen)
    /\ OInit
    /\ AInit
    /\ lateSetState = 0

SpecCards == InitCards /\ [][CNext]_vars

\* the MVVG cards, the PDF buttons and page mounts
ANext ==
    \/ \E c \in MvvIdx : CardClick(c)
    \/ \E c \in MvvIdx, key \in CardKeys : CardKeyDown(c, key)
    \/ CardKeyUpClick
    \/ \E t \in TestimonialIdx : handleOpenPdf(t)
    \/ \E t \in TestimonialIdx : cardHandleOpenPdf(t)
    \/ OpenInNewTab
    \/ DialogClose
    \/ AboutUnmount
    \/ AboutMount
    \/ MountEffects

\* the page built with either version of the slider
InitAbout ==
    /\ reducedMotion = FALSE
    /\ HInit
    /\ TInit
    /\ SInit
    /\ OInit
    /\ \E variant \in SliderVariants : AInitIn(FALSE, variant)
    /\ lateSetState = 0

SpecAbout == InitAbout /\ [][ANext]_vars

\* the testimonial slider under user input, timers and preference changes
LNext ==
    \/ \E t \in TestimonialIdx : handleOpenPdf(t)
    \/ \E t \in TestimonialIdx : cardHandleOpenPdf(t)
    \/ OpenInNewTab
    \/ \E t \in TestimonialIdx : handleReadExcerpt(t)
    \/ DialogClose
    \/ EscKey
    \/ SliderInteraction
    \/ \E id \in TimerIds : SliderInactivityFire(id)
    \/ SliderAdvance
    \/ SwiperError
    \/ \E m \in BOOLEAN : PreferenceChange(m)
    \/ AboutUnmount
    \/ AboutMount
    \/ MountEffects

\* the page built with either version of the slider and mounted under
\* either reading of the media query
InitSlider ==
    /\ reducedMotion = FALSE
    /\ HInit
    /\ TInit
    /\ SInit
    /\ OInit
    /\ \E matches \in BOOLEAN, variant \in SliderVariants :
         AInitIn(matches, variant)
    /\ lateSetState = 0

SpecSlider == InitSlider /\ [][LNext]_vars

ONext ==
    \/ OMount
    \/ \E b \in BOOLEAN, r \in Ratios : OCallback(b, r)
    \/ \E once \in BOOLEAN : ORerender(once)
    \/ OUnmount

\* the hook mounted in any environment
InitEnvironments ==
    /\ reducedMotion \in BOOLEAN
    /\ TInit
    /\ SInit
    /\ \E supported \in BOOLEAN, once \in BOOLEAN :
         /\ OInitIn(supported, once)
         /\ HInitIn(supported)
         /\ AInit
    /\ lateSetState = 0

SpecObserver == InitEnvironments /\ [][ONext]_vars

(* ================================ claims ============================== *)

\* C1: activeIndex is always a valid index, 0 <= activeIndex <= N-1, in the
\* history component and in the timeline component.
C1_ActiveIndexInRange ==
    /\ hActiveIndex \in HistIdx
    /\ tActiveIndex \in TlIdx

\* a step that delivers an observer callback
ObserverStep ==
    \E i \in HistIdx, b \in BOOLEAN, r \in Ratios : ObserverCallback(i, b, r)

\* C2: a jump to entry k sets activeIndex = k at once, and while the smooth
\* scroll to k is still animating no observer callback moves activeIndex
\* away from k.
C2_JumpNotOverridden ==
    [][ /\ \A k \in HistIdx :
             handleJumpToYear(companyHistoryYear(k)) => hActiveIndex' = k
        /\ (scrollTarget # NoTarget /\ hActiveIndex = scrollTarget /\ ObserverStep)
             => hActiveIndex' = scrollTarget ]_vars

\* a step in which a 2 s auto-advance timeout increments activeIndex
AutoAdvanceIncrement ==
    /\ hMounted
    /\ advanceTimeouts' = advanceTimeouts - 1
    /\ hActiveIndex' = hActiveIndex + 1

\* C3: the auto-advance increments activeIndex only if, when the increment is
\* applied, the component is not paused and activeIndex is not the last entry.
C3_AdvanceOnlyIfAllowed ==
    [][ AutoAdvanceIncrement =>
          (~hIsPaused /\ hActiveIndex < HistoryLen - 1) ]_vars

\* C4: once the Pause/Autoplay button turned autoplay off, isAutoplay stays
\* false until the user turns it on again with the button.
C4_ToggledOffStaysOff == userToggledOff => ~isAutoplay

\* a step in which the inactivity timeout resumes autoplay
ResumeStep ==
    /\ tMounted
    /\ \E id \in TimerIds : InactivityFire(id)

\* C5: autoplay resumes only when 12 s have passed since the most recent
\* interaction (click or key press): an interaction inside the window
\* restarts the window.
C5_ResumeAfterInactivity ==
    [][ ResumeStep => sinceInteraction >= InactivityDelay ]_vars

\* C6: after a view unmounted none of its timers is outstanding and no state
\* setter of it is called.
C6_TeardownClearsTimers ==
    /\ ~hMounted => /\ advanceTimeouts = 0
                    /\ \A i \in HistIdx : ~typingInterval[i]
    /\ ~tMounted => /\ Live(intervals) = {}
                    /\ Live(timeouts) = {}
                    /\ dotTimeouts = <<>>
    /\ lateSetState = 0

\* autoplay is running: isAutoplay on the mounted desktop layout
AutoplayRunning == tMounted /\ isAutoplay /\ ~isMobile

TimerCounts ==
    /\ Cardinality(Live(intervals)) = (IF AutoplayRunning THEN 1 ELSE 0)
    /\ Cardinality(Live(timeouts)) <= 1

ArmCancelsPrevious ==
    \A id \in TimerIds :
        (timeouts[id] = Off /\ timeouts'[id] # Off)
          => \A other \in TimerIds \ {id} : timeouts'[other] = Off

\* C7: exactly one autoplay interval is outstanding while autoplay is running
\* and none otherwise; at most one inactivity timeout is outstanding; arming
\* an inactivity timeout leaves no earlier one outstanding.
C7_TimerDiscipline == [](TimerCounts) /\ [][ArmCancelsPrevious]_vars

\* autoplay runs again after the inactivity timeout was armed a second time,
\* which is still outstanding
C7_Witness ==
    /\ AutoplayRunning
    /\ Live(intervals) # {}
    /\ inactivityRef = 2
    /\ timeouts[2] # Off

\* a step that is a user interaction with the timeline section
UserInteraction ==
    \/ ClickToggle \/ ClickPrev \/ ClickNext \/ ClickSection
    \/ \E key \in Keys : KeyDown(key)
    \/ \E pct \in Percents : ClickTrack(pct)
    \/ \E i \in TlIdx, keyboard \in BOOLEAN : ClickDot(i, keyboard)
    \/ \E i \in TlIdx : ClickYearLabel(i)
    \/ PointerMove

\* C8: every hover, focus, click or key press while autoplay is running
\* turns isAutoplay off and cancels the autoplay interval.
C8_InteractionPauses ==
    [][ (AutoplayRunning /\ UserInteraction)
          => (~isAutoplay' /\ Live(intervals') = {}) ]_vars

\* C9: when the active entry changes while the previous entry is emitting,
\* the previous entry's typing interval is cancelled and the new entry
\* starts emitting from offset 0.
C9_SwitchResets ==
    [][ ( /\ hMounted /\ hMounted'
          /\ hActiveIndex \in HistIdx /\ hActiveIndex' \in HistIdx
          /\ hActiveIndex' # hActiveIndex
          /\ typingInterval[hActiveIndex] /\ ~reducedMotion /\ ~hIsPaused )
        => ( /\ ~typingInterval'[hActiveIndex]
             /\ charIndex'[hActiveIndex'] = 0
             /\ typingInterval'[hActiveIndex'] ) ]_vars

\* C10: at most one typing interval is outstanding across all entries.
C10_OneEmissionLoop ==
    Cardinality({i \in HistIdx : typingInterval[i]}) <= 1

\* ---- C11 ----
\* the text shown by entry i is a prefix of its blurb
PrefixOfBlurb(i) ==
    \E k \in 0 .. Len(Blurb(i)) : displayedText[i] = Slice(Blurb(i), k)

\* every displayed text is a prefix of the blurb, the offset never passes
\* the blurb's end, and no typing interval exists while paused
TypewriterState ==
    \A i \in HistIdx :
        /\ PrefixOfBlurb(i)
        /\ charIndex[i] \in 0 .. Len(Blurb(i))
        /\ hIsPaused => ~typingInterval[i]

\* one step of the typewriter of entry i
TypewriterStep(i) ==
    /\ hIsPaused => charIndex'[i] = charIndex[i]
    /\ (hIsPaused /\ ~reducedMotion /\ ~reducedMotion')
          => displayedText'[i] = displayedText[i]
    /\ hIsPaused' # hIsPaused => charIndex'[i] = charIndex[i]
    /\ charIndex'[i] # charIndex[i] =>
          /\ charIndex'[i] = charIndex[i] + 1
          /\ displayedText'[i] = Slice(Blurb(i), charIndex'[i])
    /\ (~reducedMotion /\ ~reducedMotion'
           /\ displayedText[i] = Slice(Blurb(i), charIndex[i]))
          => displayedText'[i] = Slice(Blurb(i), charIndex'[i])
    /\ (isTyping[i] /\ ~isTyping'[i]) =>
          /\ charIndex[i] = Len(Blurb(i))
          /\ displayedText[i] = Blurb(i)

\* C11: while paused no entry's offset or (with motion allowed) shown text
\* changes and toggling pause keeps the offset; every emission moves the
\* offset by exactly one and shows the blurb's prefix of that length, so with
\* motion allowed the shown text stays the prefix of length offset; typing
\* ends (completion) only at the full blurb
C11_PauseKeepsOffset ==
    [](TypewriterState) /\ [][\A i \in HistIdx : TypewriterStep(i)]_vars

\* paused in the middle of the first entry's blurb
C11_Witness ==
    /\ hIsPaused
    /\ charIndex[0] = 1
    /\ displayedText[0] = Slice(Blurb(0), 1)
    /\ ~typingInterval[0]

\* ---- C12 ----
\* a firing of the autoplay interval while mounted
AutoplayStep == tMounted /\ \E id \in TimerIds : AutoplayTick(id)

\* C12: every autoplay tick moves activeIndex to the next index modulo the
\* number of entries, and after exactly that many uninterrupted ticks
\* activeIndex is back where the run of ticks began
C12_AutoplayWraps ==
    /\ []((tLen >= 1 /\ autoTicks = tLen) => tActiveIndex = autoStart)
    /\ [][AutoplayStep => tActiveIndex' = (tActiveIndex + 1) % tLen]_vars

\* a full cycle that began on the last entry
C12_Witness ==
    /\ tLen = TimelineLen
    /\ autoTicks = tLen
    /\ autoStart = tLen - 1
    /\ tActiveIndex = tLen - 1

\* ---- C13 ----
\* the entry the displayed progress resolves to
ProgressYear == timelineYear(yearIndex(scrollProgress \div 100, sLen))

\* C13: in every state of the mounted scroll-driven timeline the active year
\* is the year the displayed progress resolves to
C13_YearMatchesProgress == sMounted => activeYear = ProgressYear

\* ---- C14 ----
\* C14: once every callback of the last scroll gesture is delivered, the
\* active year is the one the gesture's final progress resolves to
C14_ConvergesToFinal ==
    (sMounted /\ pending = {})
        => activeYear = timelineYear(yearIndex(finalProgress, sLen))

\* ---- C15 ----
\* C15: the index computed by onUpdate is 0 at progress 0, the last index at
\* progress 1 and just below 1, always a valid index, and ordered like the
\* progress of the onUpdate before it
C15_ResolverShape ==
    /\ resolved[2] \in 0 .. sLen - 1
    /\ resolved[1] = 0 => resolved[2] = 0
    /\ resolved[1] = ProgressDen => resolved[2] = sLen - 1
    /\ resolved[1] = ProgressDen - 1 => resolved[2] = sLen - 1
    /\ resolvedPrev[1] <= resolved[1] => resolvedPrev[2] <= resolved[2]
    /\ resolvedPrev[1] >= resolved[1] => resolvedPrev[2] >= resolved[2]

\* progress 1 resolved, then progress just below 1
C15_Witness ==
    /\ sLen = TimelineLen
    /\ resolvedPrev = <<ProgressDen, TimelineLen - 1>>
    /\ resolved = <<ProgressDen - 1, TimelineLen - 1>>

\* ---- C16 ----
\* an autoplay interval comes into existence with the viewport unchanged
AutoplayStarts ==
    /\ tMounted
    /\ isMobile' = isMobile
    /\ Live(intervals) = {}
    /\ Live(intervals') # {}

\* C16: under reduced motion only the autoplay toggle starts an autoplay
\* interval, and prev / next still move the active entry
C16_ReducedMotionTerminal ==
    [][/\ (reducedMotion /\ AutoplayStarts) => ClickToggle
       /\ (reducedMotion /\ ClickNext) => tActiveIndex' = tActiveIndex + 1
       /\ (reducedMotion /\ ClickPrev) => tActiveIndex' = tActiveIndex - 1]_vars

\* ---- C17 ----
\* timelineData[i] is an entry
EntryDefined(i) == i \in TlIdx

\* the divisor of DesktopTimeline's progress is not zero
ProgressDefined == tLen - 1 # 0

\* C17: with at most one entry no autoplay interval exists, activeIndex is 0,
\* the active entry exists and the handle position is a number
C17_DegenerateListsSafe ==
    tLen <= 1 =>
        /\ Live(intervals) = {}
        /\ tActiveIndex = 0
        /\ EntryDefined(tActiveIndex)
        /\ ProgressDefined

\* ---- C18 ----
\* numerator and denominator of the history bar's width in percent
HistoryBarNum == (hActiveIndex + 1) * 100
HistoryBarDen == HistoryLen

\* numerator and denominator of the desktop handle's position in percent
HandleNum == tActiveIndex * 100
HandleDen == tLen - 1

\* C18: the history bar, the desktop handle and scrollProgress are all
\* between 0 and 100 percent
C18_ProgressWithinBounds ==
    /\ 0 <= HistoryBarNum /\ HistoryBarNum <= 100 * HistoryBarDen
    /\ HandleDen > 0 /\ 0 <= HandleNum /\ HandleNum <= 100 * HandleDen
    /\ 0 <= scrollProgress /\ scrollProgress <= 100 * ProgressDen

\* ---- C19 ----
\* C19: a callback of entry i that is intersecting with ratio above one half
\* makes i the active index, whatever the index was; any other callback
\* leaves the active index as it is
C19_LastQualifyingWins ==
    [][\A i \in HistIdx, b \in BOOLEAN, r \in Ratios :
          ObserverCallback(i, b, r) =>
              IF b /\ 2 * r > 100
              THEN hActiveIndex' = i
              ELSE hActiveIndex' = hActiveIndex]_vars

\* an observer callback made the last entry active
C19_Witness ==
    /\ hMounted
    /\ hActiveIndex = HistoryLen - 1
    /\ scrollTarget = NoTarget
    /\ advanceTimeouts = 0
    /\ \A i \in HistIdx : charIndex[i] = 0

\* ---- C20 ----
\* C20: mounting never throws, also where IntersectionObserver is missing
C20_MountNeverThrows == oPhase # "threw"

\* ---- C28 ----
\* the index nearest to pct percent of the way along the N - 1 steps
NearestIndex(pct) == (2 * pct * (tLen - 1) + 100) \div 200

\* one manual navigation step on the desktop timeline
ManualStep ==
    /\ (~isMobile /\ KeyDown("ArrowLeft")) =>
          tActiveIndex' = IF tActiveIndex > 0 THEN tActiveIndex - 1
                          ELSE tActiveIndex
    /\ (~isMobile /\ KeyDown("ArrowRight")) =>
          tActiveIndex' = IF tActiveIndex < tLen - 1 THEN tActiveIndex + 1
                          ELSE tActiveIndex
    /\ ClickPrev => (tActiveIndex > 0 /\ tActiveIndex' = tActiveIndex - 1)
    /\ ClickNext => (tActiveIndex < tLen - 1 /\ tActiveIndex' = tActiveIndex + 1)
    /\ \A pct \in Percents :
          ClickTrack(pct) =>
              /\ tActiveIndex' = Max(0, Min(tLen - 1, NearestIndex(pct)))
              /\ tActiveIndex' \in TlIdx
    /\ \A i \in TlIdx :
          /\ ClickDot(i, FALSE) => tActiveIndex' = i
          /\ ClickDot(i, TRUE) => tActiveIndex' = 0

\* C28: the arrow keys and the Previous / Next buttons move activeIndex by
\* exactly one and only inside the range, never wrapping; a track click sets
\* it to the nearest index of the clicked fraction, inside the range: a
\* pointer click on a dot of the track sets it to that dot's index, and a
\* click made on a dot from the keyboard, left of the track, to index 0
C28_ManualNavigationBounded == [][ManualStep]_vars

\* the last entry reached with autoplay never running
C28_Witness ==
    /\ tMounted /\ ~isMobile
    /\ tLen = TimelineLen
    /\ tActiveIndex = tLen - 1
    /\ ~isAutoplay /\ ~userToggledOff
    /\ Live(intervals) = {} /\ Live(timeouts) = {}
    /\ dotTimeouts = <<>>

\* ---- C23 ----
\* C23: the fixed year indicator is shown exactly while the scroll position
\* is inside the tracked region, that is, after onEnter or onEnterBack and
\* not after onLeave, onLeaveBack or at mount
C23_IndicatorTracksRegion ==
    sMounted => (isIndicatorVisible <=> region = "inside")

\* the region was entered and left at its end
C23_Witness == sMounted /\ region = "after" /\ ~isIndicatorVisible

\* ---- C24 ----
\* one step of a host that passes triggerOnce = true
TriggerOnceStep ==
    /\ (oTriggerOnce /\ hasTriggered) => oVisibleCalls' = oVisibleCalls
    /\ (oTriggerOnce /\ oVisibleCalls' # oVisibleCalls) =>
          (hasTriggered' /\ ~oObserving' /\ oIsIntersecting')
    /\ (oTriggerOnce /\ oTriggerOnce' /\ hasTriggered) =>
          /\ ~oObserving'
          /\ hasTriggered'
          /\ oIsIntersecting => oIsIntersecting'

\* C24: with triggerOnce the first visible callback unobserves the element;
\* from then on no observer observes it, whatever re-render happens, so
\* isIntersecting stays true and onIntersect is not called with visible =
\* true a second time
C24_TriggerOnceLatches ==
    /\ []((oTriggerOnce /\ hasTriggered) => ~oObserving)
    /\ [][TriggerOnceStep]_vars

\* triggered once and still mounted
C24_Witness ==
    /\ oPhase = "mounted"
    /\ oTriggerOnce /\ hasTriggered
    /\ oIsIntersecting
    /\ oVisibleCalls = 1

\* ---- C29 ----
\* every card shows its hero image or one of its first three gallery images
ImageFromCard ==
    \A k \in SIdx :
        \/ activeImage[k] = heroImage(k)
        \/ \E j \in 1 .. 3 : j <= Len(gallery(k)) /\ activeImage[k] = gallery(k)[j]

\* one step of the cards' images
ImageStep ==
    /\ \A k \in SIdx : \A img \in Thumbnails(k) :
          handleGalleryClick(k, img) =>
              /\ activeImage'[k] = img
              /\ \A j \in SIdx \ {k} : activeImage'[j] = activeImage[j]
    /\ \A k \in SIdx :
          (timelineYear(k) # activeYear /\ timelineYear(k) = activeYear')
              => activeImage'[k] = heroImage(k)

\* C29: a card always shows its hero image or one of its first three gallery
\* images; a thumbnail click shows exactly that image and touches no other
\* card; a card that becomes active shows its hero image again
C29_CardImageSelection == [](ImageFromCard) /\ [][ImageStep]_vars

\* the second card is active with its hero image while the first card
\* still shows a gallery image
C29_Witness ==
    /\ sMounted
    /\ activeYear = timelineYear(1)
    /\ activeImage[1] = heroImage(1)
    /\ activeImage[0] = gallery(0)[1]

(* ----------------------------- C25, C30 -------------------------------- *)
\* an activation of the Read more / Read less control of card c begins: a
\* pointer click, or Enter or Space going down on the focused button
Activation(c) ==
    \/ CardClick(c)
    \/ \E key \in {"Enter", " "} : CardKeyDown(c, key)

\* C25: every activation of a card's Read more / Read less control flips
\* that card's isExpanded, appends exactly one record with that card's id to
\* window.aboutMvvClicks and leaves every other card's isExpanded unchanged.
\* An activation by Space is the key going down and up: its first event
\* already flips and records, so the key going up may add nothing
C25_OneToggleOneRecord ==
    /\ [][\A c \in MvvIdx :
            Activation(c) =>
                /\ isExpanded'[c] = ~isExpanded[c]
                /\ Len(aboutMvvClicks') = Len(aboutMvvClicks) + 1
                /\ aboutMvvClicks'[Len(aboutMvvClicks')].id = mvvgData[c].id
                /\ \A d \in MvvIdx \ {c} : isExpanded'[d] = isExpanded[d]]_vars
    /\ [][CardKeyUpClick => UNCHANGED <<isExpanded, aboutMvvClicks>>]_vars

IsPrefix(a, b) == Len(a) <= Len(b) /\ SubSeq(b, 1, Len(a)) = a

\* a step that runs handleToggle of card c once
TogglesOnce(c) ==
    \/ Activation(c)
    \/ keyupClick = c /\ CardKeyUpClick

\* a step that opens the PDF of testimonial t, in either version of the slider
OpensPdf(t) == handleOpenPdf(t) \/ cardHandleOpenPdf(t)

\* C30: window.aboutMvvClicks and window.testimonialPdfOpened are
\* append-only: every step keeps the old records in place, a toggle of a
\* card appends one record to aboutMvvClicks only, opening a PDF appends one
\* record to testimonialPdfOpened only, and a mount of the page keeps both
\* arrays as they are
C30_ArraysAppendOnly ==
    [][/\ IsPrefix(aboutMvvClicks, aboutMvvClicks')
       /\ IsPrefix(testimonialPdfOpened, testimonialPdfOpened')
       /\ \A c \in MvvIdx :
            TogglesOnce(c) =>
                /\ Len(aboutMvvClicks') = Len(aboutMvvClicks) + 1
                /\ aboutMvvClicks'[Len(aboutMvvClicks')] =
                     [id |-> mvvgData[c].id, label |-> mvvgData[c].title,
                      timestamp |-> now]
                /\ testimonialPdfOpened' = testimonialPdfOpened
       /\ \A t \in TestimonialIdx :
            OpensPdf(t) =>
                /\ Len(testimonialPdfOpened') = Len(testimonialPdfOpened) + 1
                /\ testimonialPdfOpened'[Len(testimonialPdfOpened')] =
                     [id |-> testimonialData[t].id,
                      name |-> testimonialData[t].name, timestamp |-> now]
                /\ aboutMvvClicks' = aboutMvvClicks
       /\ AboutMount =>
            /\ aboutMvvClicks' = aboutMvvClicks
            /\ testimonialPdfOpened' = testimonialPdfOpened]_vars

\* the page mounted again after one card click and one PDF open: the cards
\* are fresh, the records are still there
C30_Witness ==
    /\ aMounted
    /\ \A c \in MvvIdx : ~isExpanded[c]
    /\ modalType = "null"
    /\ Len(aboutMvvClicks) = 1
    /\ Len(testimonialPdfOpened) = 1

(* ------------------------- C21, C22, C26, C27 -------------------------- *)
\* C21: when the carousel reports an error swiperFailed becomes true, it
\* stays true as long as the component lives, and while it is true the
\* static grid shows one card for every testimonial
C21_FallbackGrid ==
    /\ [](aMounted /\ swiperFailed =>
            /\ gridCards = {testimonialData[t].id : t \in TestimonialIdx}
            /\ Cardinality(gridCards) = TestimonialsLen)
    /\ [][SwiperError => swiperFailed']_vars
    /\ [][aMounted /\ swiperFailed /\ aMounted' => swiperFailed']_vars

\* the carousel failed and a PDF was then opened from a card of the grid
C21_Witness ==
    /\ aMounted
    /\ swiperFailed
    /\ modalType = "pdf"
    /\ Cardinality(gridCards) = TestimonialsLen

\* C22: while the component is mounted the hook's value is the matches flag
\* of the latest change event (the initial reading if there was none); after
\* unmount the listener is gone and a change event updates no state
C22_HookFollowsPreference ==
    /\ [](/\ aMounted => prefersReducedMotion = mqMatches
          /\ ~aMounted => ~mqListening)
    /\ [][\A m \in BOOLEAN :
            PreferenceChange(m) =>
                IF aMounted
                THEN prefersReducedMotion' = m
                ELSE /\ prefersReducedMotion' = prefersReducedMotion
                     /\ lateSetState' = lateSetState]_vars

\* C26: handleInteraction acts only while autoplay runs, and then stops it,
\* sets isPaused and leaves one timeout of 12 s; the timeout restarts
\* autoplay and clears isPaused; while mounted isPaused holds exactly when
\* one inactivity timeout is outstanding, never more than one is, and none
\* is outstanding after unmount
C26_PauseMatchesTimeout ==
    /\ [](/\ Cardinality(Live(lTimeouts)) <= 1
          /\ aMounted => (lIsPaused <=> Cardinality(Live(lTimeouts)) = 1)
          /\ ~aMounted => Live(lTimeouts) = {})
    /\ [][SliderInteraction =>
            IF swRunning
            THEN /\ ~swRunning'
                 /\ lIsPaused'
                 /\ \E id \in TimerIds : lTimeouts'[id] = InactivityDelay
            ELSE UNCHANGED <<swRunning, lIsPaused, lTimeouts>>]_vars
    /\ [][\A id \in TimerIds :
            SliderInactivityFire(id) =>
                /\ ~lIsPaused'
                /\ ~swiperFailed => swRunning']_vars

\* paused for the second time: the ref still held the id of the timeout
\* that fired, and part of the 12 s has passed
C26_Witness ==
    /\ aMounted
    /\ lIsPaused
    /\ lInactivityRef # 0
    /\ \E id \in TimerIds :
         /\ id # lInactivityRef
         /\ lTimeouts[id] = Off
    /\ lInactivityRef = 2
    /\ lTimeouts[lInactivityRef] \in 1 .. (InactivityDelay - 1)

\* C27: modalType is null exactly when selectedTestimonial is null; opening
\* a PDF or an excerpt sets both, and opening a PDF appends one record to
\* window.testimonialPdfOpened; closing the dialog or pressing Escape resets
\* both; the Escape listener is registered exactly while a modal is open
C27_ModalState ==
    /\ [](/\ modalType = "null" <=> selectedTestimonial = NoSelection
          /\ escListening <=> (aMounted /\ modalType # "null"))
    /\ [][\A t \in TestimonialIdx :
            /\ handleOpenPdf(t) =>
                 /\ selectedTestimonial' = t
                 /\ modalType' = "pdf"
                 /\ Len(testimonialPdfOpened') = Len(testimonialPdfOpened) + 1
                 /\ testimonialPdfOpened'[Len(testimonialPdfOpened')].id =
                      testimonialData[t].id
            /\ handleReadExcerpt(t) =>
                 /\ selectedTestimonial' = t
                 /\ modalType' = "excerpt"
                 /\ testimonialPdfOpened' = testimonialPdfOpened]_vars
    /\ [][DialogClose \/ EscKey =>
            /\ modalType' = "null"
            /\ selectedTestimonial' = NoSelection
            /\ ~escListening']_vars

\* an excerpt is open after a PDF was opened and closed
C27_Witness ==
    /\ aMounted
    /\ modalType = "excerpt"
    /\ selectedTestimonial # NoSelection
    /\ escListening
    /\ Len(testimonialPdfOpened) = 1

====
